---- MODULE Spec2Model ----
(***************************************************************************)
(* Model of the Math Learning Server (src/src/math_mcp/server.py).         *)
(*                                                                         *)
(* Python strings are sequences of one-character strings, so that the      *)
(* character allowlist, the textual replacement of function names and the  *)
(* tokenizer of eval() work on what the code works on.  Numbers are exact  *)
(* rationals n/d inside a bounded window; an input whose evaluation leaves *)
(* the window is not among the inputs the model draws.                     *)
(***************************************************************************)
EXTENDS Integers, Sequences, FiniteSets, Bags, TLC

VARIABLES
    history,    \* session -> calculation_history of that session's AppContext
    clock,      \* the reading datetime.now() would return
    backs,      \* how often the local wall clock has been set back so far
    order,      \* iteration order of the set allowed_functions in this process
    resp,       \* the response of the request that ended last
    threads,    \* worker thread -> the request it is in the middle of
    returned    \* session -> number of calculate calls that returned a result

vars == <<history, clock, backs, order, resp, threads, returned>>

----------------------------------------------------------------------------
(* Bounds of the model.                                                    *)

MaxPieces == 3
MaxNum == 30000
MaxExpDigits == 2
MaxDigits == 5
MaxRecords == 11
MaxOtherRecords == 1
MaxClock == 2
MaxBacks == 1
MaxSessions == 2
MaxWorkers == 2
MaxAmount == 2
MaxRate == 3
MaxYears == 1024
MaxCompounds == 2
MaxValue == 3
MaxNumbers == 3

----------------------------------------------------------------------------
(* Characters and strings.                                                 *)

Digits == {"0", "1", "2", "3", "4", "5", "6", "7", "8", "9"}

Letters ==
    {"a", "b", "c", "d", "e", "f", "g", "h", "i", "j", "k", "l", "m",
     "n", "o", "p", "q", "r", "s", "t", "u", "v", "w", "x", "y", "z"}

DigitVal(c) ==
    CASE c = "0" -> 0 [] c = "1" -> 1 [] c = "2" -> 2 [] c = "3" -> 3
      [] c = "4" -> 4 [] c = "5" -> 5 [] c = "6" -> 6 [] c = "7" -> 7
      [] c = "8" -> 8 [] c = "9" -> 9

\* c.isalpha() for the characters the model draws (ASCII lower case).
isalpha(c) == c \in Letters

\* old occurs in s starting at position i.
MatchAt(s, i, old) ==
    /\ i + Len(old) - 1 <= Len(s)
    /\ \A k \in 1..Len(old) : s[i + k - 1] = old[k]

\* Python's `old in s` for strings.
Contains(s, old) == \E i \in 1..(Len(s) + 1) : MatchAt(s, i, old)

RECURSIVE ReplaceFrom(_, _, _, _)
ReplaceFrom(s, i, old, new) ==
    IF i > Len(s) THEN <<>>
    ELSE IF MatchAt(s, i, old)
         THEN new \o ReplaceFrom(s, i + Len(old), old, new)
         ELSE <<s[i]>> \o ReplaceFrom(s, i + 1, old, new)

\* Python's s.replace(old, new): every non-overlapping occurrence, left to right.
Replace(s, old, new) == ReplaceFrom(s, 1, old, new)

RemoveSpaces(s) == SelectSeq(s, LAMBDA c : c # " ")

----------------------------------------------------------------------------
(* safe_eval_expression: the allowlist and the textual rewriting.          *)

allowed_chars_with_semicolon ==
    {"0", "1", "2", "3", "4", "5", "6", "7", "8", "9",
     "+", "-", "*", "/", ".", "(", ")", "e", ";"}

allowed_chars ==
    {"0", "1", "2", "3", "4", "5", "6", "7", "8", "9",
     "+", "-", "*", "/", ".", "(", ")", "e"}

f_sin == <<"s", "i", "n">>
f_cos == <<"c", "o", "s">>
f_tan == <<"t", "a", "n">>
f_log == <<"l", "o", "g">>
f_sqrt == <<"s", "q", "r", "t">>
f_abs == <<"a", "b", "s">>
f_pow == <<"p", "o", "w">>
n_math == <<"m", "a", "t", "h">>

allowed_functions == {f_sin, f_cos, f_tan, f_log, f_sqrt, f_abs, f_pow}

\* Iteration orders of the set allowed_functions.  The order is fixed by the
\* string hashes of one process; the model draws one of these two, which
\* between them put every pair of names in both relative orders.
FuncOrders ==
    {<<f_sin, f_cos, f_tan, f_log, f_sqrt, f_abs, f_pow>>,
     <<f_pow, f_abs, f_sqrt, f_log, f_tan, f_cos, f_sin>>}

clean_expr(expression) == RemoveSpaces(expression)

\* all(c in allowed_chars or c.isalpha() for c in clean_expr)
CharsAllowed(s) ==
    \A i \in 1..Len(s) : s[i] \in allowed_chars \/ isalpha(s[i])

RECURSIVE ReplaceFunctions(_, _, _, _)
\* The loop `for func in allowed_functions`, from position i of the order.
ReplaceFunctions(clean, safe, ord, i) ==
    IF i > Len(ord) THEN safe
    ELSE LET func == ord[i]
             next == IF Contains(clean, func) /\ func # f_abs
                     THEN Replace(safe, func, n_math \o <<".">> \o func)
                     ELSE safe
         IN ReplaceFunctions(clean, next, ord, i + 1)

safe_expr(clean, ord) == ReplaceFunctions(clean, clean, ord, 1)

----------------------------------------------------------------------------
(* Numbers.  A Python int or float is the exact rational n/d in lowest     *)
(* terms (d > 0) with |n| <= MaxNum and d <= MaxNum; kind "opaque" is a    *)
(* finite float that is not such a rational (sin(1), math.pi), named by    *)
(* the function and argument that produced it.                             *)

Abs(x) == IF x < 0 THEN -x ELSE x

RECURSIVE GCD(_, _)
GCD(a, b) == IF b = 0 THEN a ELSE GCD(b, a % b)

InWindow(n, d) == Abs(n) <= MaxNum /\ d >= 1 /\ d <= MaxNum

\* Python objects an expression can evaluate to.
V(k, n, d, tag) == [k |-> k, n |-> n, d |-> d, tag |-> tag]
PyInt(n) == V("int", n, 1, <<>>)
PyFloat(n, d) ==
    LET g == GCD(Abs(n), d) IN V("float", n \div g, d \div g, <<>>)
PyOpaque(fn, x) == V("opaque", x.n, x.d, fn)
PyModule == V("module", 0, 1, n_math)
PyBuiltin(name) == V("builtin", 0, 1, name)
PyMathFn(name) == V("mathfn", 0, 1, name)
PyTuple == V("tuple", 0, 1, <<>>)
PyEllipsis == V("ellipsis", 0, 1, <<>>)
PyComplex == V("complex", 0, 1, <<>>)

IsNum(v) == v.k \in {"int", "float"}
IsReal(v) == v.k \in {"int", "float", "opaque"}
IsCx(v) == IsReal(v) \/ v.k = "complex"

\* Outcome of evaluating (part of) an expression.
Val(v) == [st |-> "val", v |-> v, exc |-> "", about |-> <<>>]
Exc(name, about) == [st |-> "exc", v |-> PyTuple, exc |-> name, about |-> about]
Unmodelled == [st |-> "unmodelled", v |-> PyTuple, exc |-> "", about |-> <<>>]

\* The number n/d of the kind k ("int" or "float"), if it is in the window.
Num(k, n, d) ==
    IF d = 0 THEN Unmodelled
    ELSE LET g == GCD(Abs(n), Abs(d))
             nn == (IF d < 0 THEN -n ELSE n) \div g
             dd == Abs(d) \div g
         IN IF ~InWindow(nn, dd) THEN Unmodelled
            ELSE IF k = "int" THEN Val(PyInt(nn)) ELSE Val(PyFloat(nn, dd))

ResultKind(a, b) == IF a.k = "int" /\ b.k = "int" THEN "int" ELSE "float"

\* A binary float holds n/d exactly only when d is a power of two; any other
\* float is the nearest double, and where a result turns on the exact value
\* (a floor, a difference that cancels to zero) it is outside the model.
Exact(v) == v.d \in {2^k : k \in 0..14}

Cancels(a, b, n) == n = 0 /\ ~(Exact(a) /\ Exact(b))

\* floor(n/d) for d > 0.
Floor(n, d) == n \div d

BinaryTypeError(op) == Exc("TypeError", <<"unsupported operand", op>>)

\* a + b, a - b, a * b, a / b, a // b on evaluated operands.
PyAdd(a, b) ==
    IF IsNum(a) /\ IsNum(b)
    THEN IF Cancels(a, b, a.n * b.d + b.n * a.d) THEN Unmodelled
         ELSE Num(ResultKind(a, b), a.n * b.d + b.n * a.d, a.d * b.d)
    ELSE IF IsCx(a) /\ IsCx(b) THEN Unmodelled
    ELSE IF a.k = "tuple" /\ b.k = "tuple" THEN Val(PyTuple)
    ELSE BinaryTypeError("+")

PySub(a, b) ==
    IF IsNum(a) /\ IsNum(b)
    THEN IF Cancels(a, b, a.n * b.d - b.n * a.d) THEN Unmodelled
         ELSE Num(ResultKind(a, b), a.n * b.d - b.n * a.d, a.d * b.d)
    ELSE IF IsCx(a) /\ IsCx(b) THEN Unmodelled
    ELSE BinaryTypeError("-")

PyMul(a, b) ==
    IF IsNum(a) /\ IsNum(b)
    THEN Num(ResultKind(a, b), a.n * b.n, a.d * b.d)
    ELSE IF IsCx(a) /\ IsCx(b) THEN Unmodelled
    ELSE IF (a.k = "tuple" /\ b.k = "int") \/ (a.k = "int" /\ b.k = "tuple")
    THEN Val(PyTuple)
    ELSE BinaryTypeError("*")

PyTrueDiv(a, b) ==
    IF IsNum(a) /\ IsNum(b)
    THEN IF b.n = 0 THEN Exc("ZeroDivisionError", <<"division by zero">>)
         ELSE Num("float", a.n * b.d, a.d * b.n)
    ELSE IF IsCx(a) /\ IsCx(b) THEN Unmodelled
    ELSE BinaryTypeError("/")

PyFloorDiv(a, b) ==
    IF IsNum(a) /\ IsNum(b)
    THEN IF b.n = 0 THEN Exc("ZeroDivisionError", <<"division by zero">>)
         ELSE IF ~(Exact(a) /\ Exact(b)) THEN Unmodelled
         ELSE LET n == a.n * b.d
                  d == a.d * b.n
              IN Num(ResultKind(a, b),
                     Floor(IF d < 0 THEN -n ELSE n, Abs(d)), 1)
    ELSE IF IsReal(a) /\ IsReal(b) THEN Unmodelled
    ELSE BinaryTypeError("//")

RECURSIVE IntPow(_, _)
\* b^e for e >= 0, or MaxNum + 1 as soon as the power leaves the window.
IntPow(b, e) ==
    IF e = 0 THEN 1
    ELSE LET r == IntPow(b, e - 1)
         IN IF Abs(r) > MaxNum \/ Abs(r * b) > MaxNum THEN MaxNum + 1 ELSE r * b

\* n/d from two powers, neither of which left the window.
PowNum(k, n, d) ==
    IF Abs(n) > MaxNum \/ Abs(d) > MaxNum THEN Unmodelled ELSE Num(k, n, d)

\* An exponent with the same power of 0, 1 and -1, small enough to iterate.
SmallExp(e) == IF e > 31 THEN 30 + (e % 2) ELSE e

\* a ** b.
PyPow(a, b) ==
    IF IsNum(a) /\ IsNum(b)
    THEN IF b.d = 1
         THEN LET unit == a.d = 1 /\ Abs(a.n) <= 1
                  e == SmallExp(Abs(b.n))
              IN IF ~unit /\ Abs(b.n) > 31 THEN Unmodelled
                 ELSE IF b.n >= 0
                 THEN PowNum(ResultKind(a, b), IntPow(a.n, e), IntPow(a.d, e))
                 ELSE IF a.n = 0
                 THEN Exc("ZeroDivisionError",
                          <<"0.0 cannot be raised to a negative power">>)
                 ELSE PowNum("float", IntPow(a.d, e), IntPow(a.n, e))
         ELSE IF a.n = 0
              THEN IF b.n > 0 THEN Num("float", 0, 1)
                   ELSE Exc("ZeroDivisionError",
                            <<"0.0 cannot be raised to a negative power">>)
              ELSE IF a.n = a.d THEN Num("float", 1, 1)
              ELSE IF a.n < 0 THEN Val(PyComplex)
              ELSE Unmodelled
    ELSE IF IsCx(a) /\ IsCx(b) THEN Unmodelled
    ELSE BinaryTypeError("**")

\* -a and +a.
PyNeg(a) ==
    IF IsNum(a) THEN Num(a.k, -a.n, a.d)
    ELSE IF IsCx(a) THEN Unmodelled
    ELSE Exc("TypeError", <<"bad operand type for unary -">>)

PyPos(a) ==
    IF IsNum(a) THEN Val(a)
    ELSE IF IsCx(a) THEN Unmodelled
    ELSE Exc("TypeError", <<"bad operand type for unary +">>)

----------------------------------------------------------------------------
(* eval(): the tokenizer of Python source, over the characters that pass   *)
(* the allowlist.                                                          *)

Tok(t, s, v) == [t |-> t, s |-> s, v |-> v]
OpTok(s) == Tok("op", s, Unmodelled)
NameTok(s) == Tok("name", s, Unmodelled)
NumTok(v) == Tok("num", <<>>, v)

IsDigitAt(s, i) == i <= Len(s) /\ s[i] \in Digits
IsCharAt(s, i, c) == i <= Len(s) /\ s[i] = c

RECURSIVE DigitsEnd(_, _)
\* The position after the run of digits that starts at i.
DigitsEnd(s, i) == IF IsDigitAt(s, i) THEN DigitsEnd(s, i + 1) ELSE i

RECURSIVE DigitsValue(_, _, _)
\* The value of the digits s[i..j-1] (0 for none).
DigitsValue(s, i, j) ==
    IF i >= j THEN 0 ELSE DigitsValue(s, i, j - 1) * 10 + DigitVal(s[j - 1])

RECURSIVE Scale10(_, _)
\* n * 10^k, or MaxNum + 1 once it exceeds MaxNum.
Scale10(n, k) ==
    IF k = 0 THEN n
    ELSE IF n > MaxNum THEN MaxNum + 1
    ELSE Scale10(n * 10, k - 1)

RECURSIVE Pow10(_)
Pow10(k) == IF k = 0 THEN 1 ELSE 10 * Pow10(k - 1)

IsIdentStart(c) == isalpha(c) \/ c = "_"
IsIdentChar(c) == isalpha(c) \/ c \in Digits \/ c = "_"

RECURSIVE IdentEnd(_, _)
IdentEnd(s, i) ==
    IF i <= Len(s) /\ IsIdentChar(s[i]) THEN IdentEnd(s, i + 1) ELSE i

\* The keywords of Python: no identifiers, and no part of the model's inputs.
PyKeywords ==
    {<<"F", "a", "l", "s", "e">>, <<"N", "o", "n", "e">>,
     <<"T", "r", "u", "e">>, <<"a", "n", "d">>, <<"a", "s">>,
     <<"a", "s", "s", "e", "r", "t">>, <<"a", "s", "y", "n", "c">>,
     <<"a", "w", "a", "i", "t">>, <<"b", "r", "e", "a", "k">>,
     <<"c", "l", "a", "s", "s">>, <<"c", "o", "n", "t", "i", "n", "u", "e">>,
     <<"d", "e", "f">>, <<"d", "e", "l">>, <<"e", "l", "i", "f">>,
     <<"e", "l", "s", "e">>, <<"e", "x", "c", "e", "p", "t">>,
     <<"f", "i", "n", "a", "l", "l", "y">>, <<"f", "o", "r">>,
     <<"f", "r", "o", "m">>, <<"g", "l", "o", "b", "a", "l">>, <<"i", "f">>,
     <<"i", "m", "p", "o", "r", "t">>, <<"i", "n">>, <<"i", "s">>,
     <<"l", "a", "m", "b", "d", "a">>,
     <<"n", "o", "n", "l", "o", "c", "a", "l">>, <<"n", "o", "t">>,
     <<"o", "r">>, <<"p", "a", "s", "s">>, <<"r", "a", "i", "s", "e">>,
     <<"r", "e", "t", "u", "r", "n">>, <<"t", "r", "y">>,
     <<"w", "h", "i", "l", "e">>, <<"w", "i", "t", "h">>,
     <<"y", "i", "e", "l", "d">>}

\* The number literal that starts at i: [end, st, v], st one of "ok",
\* "syntax" (no literal of Python) and "unmodelled" (a literal outside the
\* window, or in a base or of a kind the model leaves out).
ScanNumber(s, i) ==
    LET a == DigitsEnd(s, i)
        hasDot == IsCharAt(s, a, ".")
        b == IF hasDot THEN DigitsEnd(s, a + 1) ELSE a
        expAt == IF IsCharAt(s, b, "e")
                 THEN IF IsDigitAt(s, b + 1) THEN b + 1
                      ELSE IF (IsCharAt(s, b + 1, "+") \/ IsCharAt(s, b + 1, "-"))
                              /\ IsDigitAt(s, b + 2) THEN b + 2
                      ELSE 0
                 ELSE 0
        c == IF expAt > 0 THEN DigitsEnd(s, expAt) ELSE b
        isFloat == hasDot \/ expAt > 0
        nInt == a - i
        nFrac == IF hasDot THEN b - (a + 1) ELSE 0
        nExp == IF expAt > 0 THEN c - expAt ELSE 0
        other == a = i + 1 /\ s[i] = "0" /\ a <= Len(s)
                 /\ s[a] \in {"x", "o", "b"}
        imag == c <= Len(s) /\ s[c] = "j"
        follow == c <= Len(s) /\ IsIdentStart(s[c])
        leading == ~isFloat /\ nInt > 1 /\ s[i] = "0"
                   /\ \E k \in i..(a - 1) : s[k] # "0"
        tooLong == nInt + nFrac > MaxDigits \/ nExp > MaxExpDigits
        mant == DigitsValue(s, i, a) * Pow10(nFrac)
                + (IF hasDot THEN DigitsValue(s, a + 1, b) ELSE 0)
        expo == IF expAt = 0 THEN 0
                ELSE IF s[expAt - 1] = "-" THEN -DigitsValue(s, expAt, c)
                ELSE DigitsValue(s, expAt, c)
        shift == expo - nFrac
        n == IF shift >= 0 THEN Scale10(mant, shift) ELSE mant
        d == IF shift >= 0 THEN 1 ELSE Scale10(1, -shift)
        v == IF mant = 0 THEN Num("float", 0, 1)
             ELSE IF n > MaxNum \/ d = MaxNum + 1 THEN Unmodelled
             ELSE Num("float", n, d)
    IN IF other \/ imag THEN [end |-> c, st |-> "unmodelled", v |-> Unmodelled]
       ELSE IF follow /\ \E kw \in PyKeywords : MatchAt(s, c, kw)
       THEN [end |-> c, st |-> "unmodelled", v |-> Unmodelled]
       ELSE IF follow \/ leading THEN [end |-> c, st |-> "syntax", v |-> Unmodelled]
       ELSE IF tooLong THEN [end |-> c, st |-> "ok", v |-> Unmodelled]
       ELSE IF isFloat THEN [end |-> c, st |-> "ok", v |-> v]
       ELSE [end |-> c, st |-> "ok", v |-> Num("int", mant, 1)]

\* Outcome of the tokenizer: the tokens, or no tokens of Python.
Lexed(toks) == [st |-> "ok", toks |-> toks]
LexFail(st) == [st |-> st, toks |-> <<>>]

RECURSIVE Lex(_, _, _)
Lex(s, i, acc) ==
    IF i > Len(s) THEN Lexed(acc)
    ELSE LET c == s[i]
         IN IF c \in Digits \/ (c = "." /\ IsDigitAt(s, i + 1))
            THEN LET num == ScanNumber(s, i)
                 IN IF num.st # "ok" THEN LexFail(num.st)
                    ELSE Lex(s, num.end, Append(acc, NumTok(num.v)))
            ELSE IF IsIdentStart(c)
            THEN LET e == IdentEnd(s, i)
                     name == SubSeq(s, i, e - 1)
                 IN IF name \in PyKeywords THEN LexFail("unmodelled")
                    ELSE Lex(s, e, Append(acc, NameTok(name)))
            ELSE IF c = "*" /\ IsCharAt(s, i + 1, "*")
            THEN Lex(s, i + 2, Append(acc, OpTok("**")))
            ELSE IF c = "/" /\ IsCharAt(s, i + 1, "/")
            THEN Lex(s, i + 2, Append(acc, OpTok("//")))
            ELSE IF c = "." /\ IsCharAt(s, i + 1, ".") /\ IsCharAt(s, i + 2, ".")
            THEN Lex(s, i + 3, Append(acc, OpTok("...")))
            ELSE IF c \in {"+", "-", "*", "/", ".", "(", ")"}
            THEN Lex(s, i + 1, Append(acc, OpTok(c)))
            ELSE LexFail("syntax")

----------------------------------------------------------------------------
(* eval(): names, attributes and calls under the globals                   *)
(* {"__builtins__": {"abs": abs}, "math": math}.                           *)

\* The functions of the math module the model evaluates.
MathFunctions ==
    {<<"s", "i", "n">>, <<"c", "o", "s">>, <<"t", "a", "n">>,
     <<"a", "s", "i", "n">>, <<"s", "i", "n", "h">>, <<"s", "q", "r", "t">>,
     <<"l", "o", "g">>, <<"l", "o", "g", "2">>, <<"l", "o", "g", "1", "0">>,
     <<"p", "o", "w">>, <<"f", "a", "b", "s">>}

\* The float constants of the math module the model evaluates.
MathConstants == {<<"p", "i">>, <<"e">>, <<"t", "a", "u">>}

\* The other attributes of the math module: left out of the model's inputs.
MathOther ==
    {<<"a", "c", "o", "s">>, <<"a", "c", "o", "s", "h">>,
     <<"a", "s", "i", "n", "h">>, <<"a", "t", "a", "n">>,
     <<"a", "t", "a", "n", "2">>, <<"a", "t", "a", "n", "h">>,
     <<"c", "b", "r", "t">>, <<"c", "e", "i", "l">>, <<"c", "o", "m", "b">>,
     <<"c", "o", "p", "y", "s", "i", "g", "n">>, <<"c", "o", "s", "h">>,
     <<"d", "e", "g", "r", "e", "e", "s">>, <<"d", "i", "s", "t">>,
     <<"e", "r", "f">>, <<"e", "r", "f", "c">>, <<"e", "x", "p">>,
     <<"e", "x", "p", "2">>, <<"e", "x", "p", "m", "1">>,
     <<"f", "a", "c", "t", "o", "r", "i", "a", "l">>,
     <<"f", "l", "o", "o", "r">>, <<"f", "m", "o", "d">>,
     <<"f", "r", "e", "x", "p">>, <<"f", "s", "u", "m">>,
     <<"g", "a", "m", "m", "a">>, <<"g", "c", "d">>,
     <<"h", "y", "p", "o", "t">>, <<"i", "n", "f">>,
     <<"i", "s", "c", "l", "o", "s", "e">>,
     <<"i", "s", "f", "i", "n", "i", "t", "e">>, <<"i", "s", "i", "n", "f">>,
     <<"i", "s", "n", "a", "n">>, <<"i", "s", "q", "r", "t">>,
     <<"l", "c", "m">>, <<"l", "d", "e", "x", "p">>,
     <<"l", "g", "a", "m", "m", "a">>, <<"l", "o", "g", "1", "p">>,
     <<"m", "o", "d", "f">>, <<"n", "a", "n">>,
     <<"n", "e", "x", "t", "a", "f", "t", "e", "r">>, <<"p", "e", "r", "m">>,
     <<"p", "r", "o", "d">>, <<"r", "a", "d", "i", "a", "n", "s">>,
     <<"r", "e", "m", "a", "i", "n", "d", "e", "r">>, <<"t", "a", "n", "h">>,
     <<"t", "r", "u", "n", "c">>, <<"u", "l", "p">>}

\* Attributes of numbers and tuples spelled with letters only: left out.
ObjectAttrs ==
    {<<"r", "e", "a", "l">>, <<"i", "m", "a", "g">>,
     <<"n", "u", "m", "e", "r", "a", "t", "o", "r">>,
     <<"d", "e", "n", "o", "m", "i", "n", "a", "t", "o", "r">>,
     <<"c", "o", "n", "j", "u", "g", "a", "t", "e">>, <<"h", "e", "x">>,
     <<"f", "r", "o", "m", "h", "e", "x">>, <<"c", "o", "u", "n", "t">>,
     <<"i", "n", "d", "e", "x">>}

IsSquare(n) == \E r \in 0..200 : r * r = n
Sqrt(n) == CHOOSE r \in 0..200 : r * r = n

RECURSIVE LogBase(_, _)
\* k with base^k = n, or -1 when n is no power of base (n >= 1).
LogBase(base, n) ==
    IF n = 1 THEN 0
    ELSE IF n % base # 0 THEN -1
    ELSE LET k == LogBase(base, n \div base) IN IF k < 0 THEN -1 ELSE k + 1

DomainError == Exc("ValueError", <<"math domain error">>)

\* math.<name>(x) for a number x.
MathCall(name, x) ==
    LET opaque == Val(PyOpaque(name, x))
        log(base) ==
            IF x.n <= 0 THEN DomainError
            ELSE IF x.d = 1 /\ LogBase(base, x.n) >= 0
            THEN Num("float", LogBase(base, x.n), 1)
            ELSE IF x.n = 1 /\ LogBase(base, x.d) >= 0
            THEN Num("float", -LogBase(base, x.d), 1)
            ELSE opaque
    IN CASE name = f_sin -> IF x.n = 0 THEN Num("float", 0, 1) ELSE opaque
         [] name = f_cos -> IF x.n = 0 THEN Num("float", 1, 1) ELSE opaque
         [] name = f_tan -> IF x.n = 0 THEN Num("float", 0, 1) ELSE opaque
         [] name = <<"a", "s", "i", "n">> ->
                IF Abs(x.n) > x.d THEN DomainError
                ELSE IF x.n = 0 THEN Num("float", 0, 1) ELSE opaque
         [] name = <<"s", "i", "n", "h">> ->
                IF Abs(x.n) > 710 * x.d
                THEN Exc("OverflowError", <<"math range error">>)
                ELSE IF x.n = 0 THEN Num("float", 0, 1) ELSE opaque
         [] name = f_sqrt ->
                IF x.n < 0 THEN DomainError
                ELSE IF IsSquare(x.n) /\ IsSquare(x.d)
                THEN Num("float", Sqrt(x.n), Sqrt(x.d))
                ELSE opaque
         [] name = f_log ->
                IF x.n <= 0 THEN DomainError
                ELSE IF x.n = x.d THEN Num("float", 0, 1) ELSE opaque
         [] name = <<"l", "o", "g", "2">> -> log(2)
         [] name = <<"l", "o", "g", "1", "0">> -> log(10)
         [] name = <<"f", "a", "b", "s">> -> Num("float", Abs(x.n), x.d)
         [] OTHER -> Unmodelled

\* The value of the name `name`.
LookupName(name) ==
    IF name = n_math THEN Val(PyModule)
    ELSE IF name = f_abs THEN Val(PyBuiltin(f_abs))
    ELSE Exc("NameError", name)

\* obj.name
GetAttr(obj, name) ==
    IF obj.k = "module"
    THEN IF name \in MathFunctions THEN Val(PyMathFn(name))
         ELSE IF name \in MathConstants THEN Val(V("opaque", 0, 1, name))
         ELSE IF name \in MathOther THEN Unmodelled
         ELSE Exc("AttributeError", name)
    ELSE IF name \in ObjectAttrs THEN Unmodelled
    ELSE Exc("AttributeError", name)

\* f() for nargs = 0 and f(x) for nargs = 1.
Call(f, nargs, x) ==
    IF f.k = "builtin"
    THEN IF nargs = 0 THEN Exc("TypeError", <<"abs() takes exactly one argument">>)
         ELSE IF IsNum(x) THEN Num(x.k, Abs(x.n), x.d)
         ELSE IF IsCx(x) THEN Unmodelled
         ELSE Exc("TypeError", <<"bad operand type for abs()">>)
    ELSE IF f.k = "mathfn"
    THEN IF f.tag = f_pow THEN Exc("TypeError", <<"pow expected 2 arguments">>)
         ELSE IF nargs = 0 THEN Exc("TypeError", <<"takes exactly one argument">>)
         ELSE IF IsNum(x) THEN MathCall(f.tag, x)
         ELSE IF x.k = "opaque" THEN Unmodelled
         ELSE Exc("TypeError", <<"must be real number">>)
    ELSE Exc("TypeError", <<"object is not callable">>)

\* f(*x): the argument must be iterable, and () is the only iterable there is.
CallStar(f, x) ==
    IF x.k = "tuple" THEN Call(f, 0, x)
    ELSE Exc("TypeError", <<"argument after * must be an iterable">>)

\* f(**x): the argument must be a mapping, and there is none.
CallStarStar(f, x) == Exc("TypeError", <<"argument after ** must be a mapping">>)

\* float(result)
ToFloat(v) ==
    IF IsNum(v) THEN Num("float", v.n, v.d)
    ELSE IF v.k = "opaque" THEN Val(v)
    ELSE Exc("TypeError", <<"float() argument must be a string or a real number">>)

----------------------------------------------------------------------------
(* eval(): the grammar of Python expressions over these tokens, evaluated  *)
(* while it is parsed.  Python evaluates operands left to right and the    *)
(* first exception ends the evaluation, so the outcome of two parts is the *)
(* first one that is no value; a syntax error anywhere comes before all.   *)

P(ok, pos, out) == [ok |-> ok, pos |-> pos, out |-> out]
NoParse == P(FALSE, 0, Unmodelled)

IsOp(toks, pos, op) ==
    pos <= Len(toks) /\ toks[pos].t = "op" /\ toks[pos].s = op

\* The outcome of a unary operation on the outcome a.
Apply1(Op(_), a) == IF a.st # "val" THEN a ELSE Op(a.v)

\* The outcome of a binary operation on the outcomes a and b, in this order.
Apply2(Op(_, _), a, b) ==
    IF a.st # "val" THEN a ELSE IF b.st # "val" THEN b ELSE Op(a.v, b.v)

RECURSIVE ParseArith(_, _), ArithFrom(_, _), ArithRest(_, _, _),
          ArithNext(_, _, _, _), ParseTerm(_, _), TermFrom(_, _),
          TermRest(_, _, _), TermNext(_, _, _, _), ParseFactor(_, _),
          ParsePower(_, _), PowerFrom(_, _), ParseAtom(_, _),
          TrailersOf(_, _), Trailers(_, _, _), CallTrailer(_, _, _, _)

\* arith: term (('+' | '-') term)*
ParseArith(toks, pos) == ArithFrom(toks, ParseTerm(toks, pos))

ArithFrom(toks, l) ==
    IF ~l.ok THEN NoParse ELSE ArithRest(toks, l.pos, l.out)

ArithRest(toks, pos, left) ==
    IF IsOp(toks, pos, "+") \/ IsOp(toks, pos, "-")
    THEN ArithNext(toks, pos, left, ParseTerm(toks, pos + 1))
    ELSE P(TRUE, pos, left)

ArithNext(toks, pos, left, r) ==
    IF ~r.ok THEN NoParse
    ELSE ArithRest(toks, r.pos,
                   IF toks[pos].s = "+" THEN Apply2(PyAdd, left, r.out)
                   ELSE Apply2(PySub, left, r.out))

\* term: factor (('*' | '/' | '//') factor)*
ParseTerm(toks, pos) == TermFrom(toks, ParseFactor(toks, pos))

TermFrom(toks, l) ==
    IF ~l.ok THEN NoParse ELSE TermRest(toks, l.pos, l.out)

TermRest(toks, pos, left) ==
    IF IsOp(toks, pos, "*") \/ IsOp(toks, pos, "/") \/ IsOp(toks, pos, "//")
    THEN TermNext(toks, pos, left, ParseFactor(toks, pos + 1))
    ELSE P(TRUE, pos, left)

TermNext(toks, pos, left, r) ==
    IF ~r.ok THEN NoParse
    ELSE TermRest(toks, r.pos,
                  IF toks[pos].s = "*" THEN Apply2(PyMul, left, r.out)
                  ELSE IF toks[pos].s = "/" THEN Apply2(PyTrueDiv, left, r.out)
                  ELSE Apply2(PyFloorDiv, left, r.out))

\* The factor f with the unary operator op in front of it.
Signed(op, f) ==
    IF ~f.ok THEN NoParse
    ELSE P(TRUE, f.pos,
           IF op = "-" THEN Apply1(PyNeg, f.out) ELSE Apply1(PyPos, f.out))

\* factor: ('+' | '-') factor | power
ParseFactor(toks, pos) ==
    IF IsOp(toks, pos, "+") \/ IsOp(toks, pos, "-")
    THEN Signed(toks[pos].s, ParseFactor(toks, pos + 1))
    ELSE ParsePower(toks, pos)

\* The power of the base b and the exponent e.
Raised(b, e) ==
    IF ~e.ok THEN NoParse ELSE P(TRUE, e.pos, Apply2(PyPow, b.out, e.out))

\* power: primary ['**' factor]
ParsePower(toks, pos) == PowerFrom(toks, TrailersOf(toks, ParseAtom(toks, pos)))

PowerFrom(toks, b) ==
    IF ~b.ok THEN NoParse
    ELSE IF IsOp(toks, b.pos, "**")
    THEN Raised(b, ParseFactor(toks, b.pos + 1))
    ELSE b

\* The expression e, when the token after it is ')'.
Closed(toks, e) ==
    IF e.ok /\ IsOp(toks, e.pos, ")") THEN P(TRUE, e.pos + 1, e.out) ELSE NoParse

\* atom: NAME | NUMBER | '...' | '(' ')' | '(' arith ')'
ParseAtom(toks, pos) ==
    IF pos > Len(toks) THEN NoParse
    ELSE IF toks[pos].t = "num" THEN P(TRUE, pos + 1, toks[pos].v)
    ELSE IF toks[pos].t = "name" THEN P(TRUE, pos + 1, LookupName(toks[pos].s))
    ELSE IF toks[pos].s = "..." THEN P(TRUE, pos + 1, Val(PyEllipsis))
    ELSE IF toks[pos].s = "("
    THEN IF IsOp(toks, pos + 1, ")") THEN P(TRUE, pos + 2, Val(PyTuple))
         ELSE Closed(toks, ParseArith(toks, pos + 1))
    ELSE NoParse

CallOne(f, x) == Call(f, 1, x)

\* primary: atom trailer*
TrailersOf(toks, a) ==
    IF a.ok THEN Trailers(toks, a.pos, a.out) ELSE NoParse

\* trailer*: '.' NAME | '(' ')' | '(' arith ')' | '(' '*' arith ')'
\*           | '(' '**' arith ')'
Trailers(toks, pos, obj) ==
    IF IsOp(toks, pos, ".")
    THEN IF pos + 1 <= Len(toks) /\ toks[pos + 1].t = "name"
         THEN Trailers(toks, pos + 2,
                       IF obj.st # "val" THEN obj
                       ELSE GetAttr(obj.v, toks[pos + 1].s))
         ELSE NoParse
    ELSE IF IsOp(toks, pos, "(")
    THEN IF IsOp(toks, pos + 1, ")")
         THEN Trailers(toks, pos + 2,
                       IF obj.st # "val" THEN obj ELSE Call(obj.v, 0, PyTuple))
         ELSE IF IsOp(toks, pos + 1, "*") \/ IsOp(toks, pos + 1, "**")
         THEN CallTrailer(toks, toks[pos + 1].s, obj, ParseArith(toks, pos + 2))
         ELSE CallTrailer(toks, "", obj, ParseArith(toks, pos + 1))
    ELSE P(TRUE, pos, obj)

\* The call of obj with the argument e, which star ("*", "**" or "") unpacks.
CallTrailer(toks, star, obj, e) ==
    IF e.ok /\ IsOp(toks, e.pos, ")")
    THEN Trailers(toks, e.pos + 1,
                  IF star = "*" THEN Apply2(CallStar, obj, e.out)
                  ELSE IF star = "**" THEN Apply2(CallStarStar, obj, e.out)
                  ELSE Apply2(CallOne, obj, e.out))
    ELSE NoParse

SyntaxError == Exc("SyntaxError", <<"invalid syntax">>)

\* The value of the whole token sequence of n tokens, parsed as an expression.
Parsed(parsed, n) ==
    IF ~parsed.ok \/ parsed.pos # n + 1 THEN SyntaxError ELSE parsed.out

ParseTokens(lexed) ==
    IF lexed.st = "syntax" THEN SyntaxError
    ELSE IF lexed.st = "unmodelled" THEN Unmodelled
    ELSE Parsed(ParseArith(lexed.toks, 1), Len(lexed.toks))

\* eval(source, allowed_globals, {}): the value, or the exception raised.
eval(source) == ParseTokens(Lex(source, 1, <<>>))

----------------------------------------------------------------------------
(* safe_eval_expression and its outcomes.                                  *)

\* What a call of a function of the server ends in.
Return(v) == [st |-> "return", v |-> v, exc |-> "", msg |-> <<>>, evaluated |-> TRUE]
Raise(exc, msg, evaluated) ==
    [st |-> "raise", v |-> PyTuple, exc |-> exc, msg |-> msg, evaluated |-> evaluated]
NotModelled ==
    [st |-> "unmodelled", v |-> PyTuple, exc |-> "", msg |-> <<>>, evaluated |-> FALSE]

\* The exceptions eval() and float() raise here, all subclasses of Exception.
EvalExceptions ==
    {"SyntaxError", "NameError", "AttributeError", "TypeError",
     "ZeroDivisionError", "ValueError", "OverflowError"}

ExceptOnlySyntaxAndNames(exc) == exc \in {"SyntaxError", "NameError"}

\* `except Exception as e` catches the exception exc.
ExceptException(exc) == exc \in EvalExceptions

\* The body of the try statement: eval(), then float().
TryEval(source) == Apply1(ToFloat, eval(source))

\* The try statement, its body having ended in out.
TryExcept(out) ==
    IF out.st = "unmodelled" THEN NotModelled
    ELSE IF out.st = "val" THEN Return(out.v)
    ELSE IF ExceptException(out.exc)
    THEN Raise("ValueError", <<"Invalid expression", out.exc, out.about>>, TRUE)
    ELSE Raise(out.exc, out.about, TRUE)

safe_eval_expression(expression, ord) ==
    IF ~CharsAllowed(clean_expr(expression))
    THEN Raise("ValueError", <<"Expression contains invalid characters">>, FALSE)
    ELSE TryExcept(TryEval(safe_expr(clean_expr(expression), ord)))

----------------------------------------------------------------------------
(* The expressions the model draws: up to MaxPieces pieces, and the        *)
(* expressions of the tests and of the documentation.                      *)

Pieces ==
    {<<"0">>, <<"1">>, <<"2">>, <<"+">>, <<"-">>, <<"*">>, <<"/">>, <<".">>,
     <<"(">>, <<")">>, <<"e">>, <<" ">>, <<";">>,
     f_sin, <<"s", "i", "n", "h">>, f_log, f_abs, n_math, <<"p", "i">>}

\* Expressions of the test suite (tests/test_math_operations.py) and of the
\* documentation of calculate.
e_2_plus_3 == <<"2", " ", "+", " ", "3">>
e_2_pow_3 == <<"2", " ", "*", "*", " ", "3">>
e_abs_5 == <<"a", "b", "s", "(", "-", "5", ")">>
e_sin_0 == <<"s", "i", "n", "(", "0", ")">>
e_sqrt_16 == <<"s", "q", "r", "t", "(", "1", "6", ")">>
e_import_os == <<"i", "m", "p", "o", "r", "t", " ", "o", "s">>
e_dunder_import == <<"_", "_", "i", "m", "p", "o", "r", "t", "_", "_", "(", "'", "o", "s", "'", ")">>
e_exec == <<"e", "x", "e", "c", "(", "'", "p", "r", "i", "n", "t", "(", "1", ")", "'", ")">>

Corpus ==
    {e_2_plus_3, e_2_pow_3, e_abs_5, e_sin_0, e_sqrt_16, e_import_os,
     e_dunder_import, e_exec}

RECURSIVE Concat(_, _)
\* The concatenation of the pieces ps[i], ps[i + 1], ...
Concat(ps, i) == IF i > Len(ps) THEN <<>> ELSE ps[i] \o Concat(ps, i + 1)

----------------------------------------------------------------------------
(* The server: sessions, the calculate tool and the history resource.      *)

Sessions == 1..MaxSessions
Workers == 1..MaxWorkers

HistoryShown == 10

Max(a, b) == IF a >= b THEN a ELSE b
Min(a, b) == IF a <= b THEN a ELSE b

\* app_lifespan: the AppContext of a new session, its history empty.
app_lifespan == <<>>

\* datetime.now().isoformat(): the reading of the local wall clock.
Now == clock

history_entry(expression, result, timestamp) ==
    [type |-> "calculation", expression |-> expression,
     result |-> result, timestamp |-> timestamp]

CalculationResult(expression, result, timestamp) ==
    [expression |-> expression, result |-> result, timestamp |-> timestamp]

AppendToEverySession(h, s, entry) == [t \in DOMAIN h |-> Append(h[t], entry)]

PrependEntry(h, s, entry) == [h EXCEPT ![s] = <<entry>> \o @]

\* ctx.request_context.lifespan_context.calculation_history.append(entry)
AppendEntry(h, s, entry) == [h EXCEPT ![s] = Append(@, entry)]

FirstTen(h) == SubSeq(h, 1, Min(Len(h), HistoryShown))

\* history[-10:]
LastTen(h) == SubSeq(h, Max(1, Len(h) - HistoryShown + 1), Len(h))

Line(i, entry) ==
    [i |-> i, expression |-> entry.expression, result |-> entry.result,
     timestamp |-> entry.timestamp]

NewestFirst(shown) ==
    [i \in 1..Len(shown) |-> Line(i, shown[Len(shown) + 1 - i])]

\* for i, entry in enumerate(history[-10:], 1): one line per entry
Lines(shown) == [i \in 1..Len(shown) |-> Line(i, shown[i])]

\* The text a history read returns: the lines, and the count of the line
\* "... and N more calculations" (0 when the text has no such line).
HistoryText(empty, lines, more) == [empty |-> empty, lines |-> lines, more |-> more]

\* len(history) - 10, for the last line of the text
More(h) == Len(h) - HistoryShown

get_calculation_history(h) ==
    IF h = <<>> THEN HistoryText(TRUE, <<>>, 0)
    ELSE HistoryText(FALSE, Lines(LastTen(h)),
                     IF Len(h) > HistoryShown THEN More(h) ELSE 0)

e_1plus2 == <<"1", "+", "2">>
e_1div0 == <<"1", "/", "0">>
e_semicolon == <<"1", ";", "2">>

CalcInputs == {e_1plus2, e_1div0, e_semicolon}

\* The expressions the model calls calculate with.
Expressions ==
    UNION {{Concat(ps, 1) : ps \in [1..n -> Pieces]} : n \in 0..MaxPieces}
        \cup Corpus \cup CalcInputs

\* safe_eval_expression on these expressions, evaluated once.
Outcomes ==
    [o \in FuncOrders |-> [e \in Expressions |-> safe_eval_expression(e, o)]]

Evaluated(e, o) == Outcomes[o][e]

NoRequest == [op |-> "none"]
Idle == [pc |-> "idle"]

CalcResponse(s, e, out) ==
    [op |-> "calculate", session |-> s, expression |-> e, out |-> out]
HistoryResponse(s, text) == [op |-> "history", session |-> s, out |-> text]

Init ==
    /\ history = <<>>
    /\ clock = 0
    /\ backs = 0
    /\ order \in FuncOrders
    /\ resp = NoRequest
    /\ threads = [w \in Workers |-> Idle]
    /\ returned = <<>>

\* The host opens session s and enters app_lifespan for it.
StartSession(s) ==
    /\ s \notin DOMAIN history
    /\ history' = history @@ (s :> app_lifespan)
    /\ returned' = returned @@ (s :> 0)
    /\ UNCHANGED <<clock, backs, order, resp, threads>>

\* calculate, lines 154-169, safe_eval_expression having ended in r.
Calculated(s, e, r, timestamp) ==
    /\ r.st # "unmodelled"
    /\ IF r.st = "return"
       THEN /\ history' = AppendEntry(history, s, history_entry(e, r.v, timestamp))
            /\ returned' = [returned EXCEPT ![s] = @ + 1]
            /\ resp' = CalcResponse(s, e, Return(CalculationResult(e, r.v, timestamp)))
       ELSE /\ UNCHANGED <<history, returned>>
            /\ resp' = CalcResponse(s, e, r)

\* The calculate tool, called in session s with the expression e.
Calculate(s, e) ==
    /\ s \in DOMAIN history
    /\ Calculated(s, e, Evaluated(e, order), Now)
    /\ UNCHANGED <<clock, backs, order, threads>>

\* The resource math://history, read in session s.
ReadHistory(s) ==
    /\ s \in DOMAIN history
    /\ resp' = HistoryResponse(s, get_calculation_history(history[s]))
    /\ UNCHANGED <<history, clock, backs, order, threads, returned>>

\* Time passes.
Tick ==
    /\ clock < MaxClock
    /\ clock' = clock + 1
    /\ UNCHANGED <<history, backs, order, resp, threads, returned>>

\* The local wall clock is set back (the end of daylight saving time, a
\* correction of the system time): datetime.now() is no monotonic clock.
ClockSetBack ==
    /\ backs < MaxBacks
    /\ clock > 0
    /\ clock' \in 0..(clock - 1)
    /\ backs' = backs + 1
    /\ UNCHANGED <<history, order, resp, threads, returned>>

----------------------------------------------------------------------------
(* Spec: sessions served one request at a time.                            *)

\* Session 1 grows past the ten records a read shows; the others stay short.
RecordBound(s) == IF s = 1 THEN MaxRecords ELSE MaxOtherRecords

Next ==
    \/ \E s \in Sessions : StartSession(s)
    \/ \E s \in Sessions, e \in CalcInputs :
          /\ s \in DOMAIN history
          /\ Len(history[s]) < RecordBound(s)
          /\ Calculate(s, e)
    \/ \E s \in Sessions : ReadHistory(s)
    \/ Tick
    \/ ClockSetBack

Spec == Init /\ [][Next]_vars

----------------------------------------------------------------------------
(* Properties of the session history, checked under Spec.                  *)

\* What a record holds, and what a line of the rendered text shows of it.
Record(entry) ==
    [expression |-> entry.expression, result |-> entry.result,
     timestamp |-> entry.timestamp]
Shown(line) ==
    [expression |-> line.expression, result |-> line.result,
     timestamp |-> line.timestamp]

\* C3: the history of a session is append-only.  A calculate that returns
\* appends exactly one record {expression, result, timestamp} at the end;
\* no other step changes the history of the session, so every record keeps
\* its position and content and none is removed; a read changes nothing.
C3_AppendOnly ==
    [][/\ \A s \in DOMAIN history :
            IF returned'[s] = returned[s] + 1
            THEN /\ resp'.op = "calculate" /\ resp'.session = s
                 /\ resp'.out.st = "return"
                 /\ Len(history'[s]) = Len(history[s]) + 1
                 /\ SubSeq(history'[s], 1, Len(history[s])) = history[s]
                 /\ Record(history'[s][Len(history'[s])]) =
                        [expression |-> resp'.expression,
                         result |-> resp'.out.v.result,
                         timestamp |-> resp'.out.v.timestamp]
            ELSE history'[s] = history[s]
       /\ (resp' # resp /\ resp'.op = "history") => history' = history]_vars

\* Two different records are in the history, and it has been read.
C3_Witness ==
    /\ resp.op = "history" /\ resp.session = 1
    /\ Len(history[1]) >= 2
    /\ history[1][1] # history[1][2]

\* C4: for a history of n records the resource returns the message "No
\* calculations performed yet" when n = 0 and otherwise renders exactly
\* min(n, 10) records, the min(n, 10) appended last: none older is shown and
\* none of them is missing.
C4_LastTenRendered ==
    resp.op = "history" =>
        LET h == history[resp.session]
            n == Len(h)
            k == IF n < 10 THEN n ELSE 10
            lines == resp.out.lines
        IN IF n = 0 THEN resp.out.empty /\ lines = <<>>
           ELSE /\ ~resp.out.empty
                /\ Len(lines) = k
                /\ \A r \in {Record(h[j]) : j \in 1..n} :
                      Cardinality({i \in 1..k : Shown(lines[i]) = r}) =
                      Cardinality({j \in (n - k + 1)..n : Record(h[j]) = r})

\* A read of eleven records rendered ten, the oldest record not among them.
C4_Witness ==
    /\ resp.op = "history"
    /\ Len(history[resp.session]) = 11
    /\ Len(resp.out.lines) = 10
    /\ \A i \in 1..10 :
          Shown(resp.out.lines[i]) # Record(history[resp.session][1])

\* C5 (as stated): the resource lists the records most recent first: the
\* record appended last is line 1 and each later line is an older record.
C5_MostRecentFirst ==
    resp.op = "history" =>
        LET h == history[resp.session]
            lines == resp.out.lines
        IN \A i \in 1..Len(lines) :
              lines[i].i = i /\ Shown(lines[i]) = Record(h[Len(h) + 1 - i])

\* C5 (amended): the resource lists the records it renders oldest first:
\* line 1 is the oldest of the rendered records, each later line is a more
\* recent record, and the record appended last is the last line, numbered
\* min(n, 10).
C5_OldestFirst ==
    resp.op = "history" =>
        LET h == history[resp.session]
            lines == resp.out.lines
        IN \A i \in 1..Len(lines) :
              /\ lines[i].i = i
              /\ Shown(lines[i]) = Record(h[Len(h) - Len(lines) + i])

\* A read whose last line is the record appended last, the line before it
\* a different, older record.
C5_Witness ==
    /\ resp.op = "history"
    /\ Len(resp.out.lines) >= 2
    /\ LET h == history[resp.session]
           lines == resp.out.lines
       IN /\ Shown(lines[Len(lines)]) = Record(h[Len(h)])
          /\ lines[Len(lines)].i = Len(lines)
          /\ Record(h[Len(h)]) # Record(h[Len(h) - 1])

\* C6: the history is scoped to the session.  Only a calculate of session s
\* that returns changes the history of s, so a calculate of another session
\* never appears in it; and a read in s renders the records of s alone,
\* lines and "more" count adding up to the number of results s was given.
C6_SessionScoped ==
    [][/\ \A s \in DOMAIN history :
            returned'[s] = returned[s] => history'[s] = history[s]
       /\ resp'.op = "history" =>
            /\ Len(resp'.out.lines) + resp'.out.more = returned'[resp'.session]
            /\ \A i \in 1..Len(resp'.out.lines) :
                  \E j \in 1..Len(history'[resp'.session]) :
                     Shown(resp'.out.lines[i]) = Record(history'[resp'.session][j])]_vars

\* Session 1 has records; session 2, started too, reads an empty history.
C6_Witness ==
    /\ DOMAIN history = Sessions
    /\ Len(history[1]) >= 1
    /\ resp.op = "history" /\ resp.session = 2
    /\ resp.out.empty

\* C9: calling calculate twice with the same expression in one session
\* returns the same result both times and appends two records in call order,
\* the second timestamp equal to or later than the first.  The timestamp is
\* datetime.now(), the local wall clock, which can be set back between the
\* two calls.
C9_RepeatedCalculate ==
    \A s \in DOMAIN history :
        \A i \in 1..Len(history[s]) : \A j \in i..Len(history[s]) :
            history[s][i].expression = history[s][j].expression =>
                /\ history[s][i].result = history[s][j].result
                /\ history[s][i].timestamp <= history[s][j].timestamp

----------------------------------------------------------------------------
(* SpecEval: one session, one call of calculate, over every expression of  *)
(* up to MaxPieces pieces.                                                 *)

NextEval ==
    \/ StartSession(1)
    \/ /\ resp = NoRequest
       /\ 1 \in DOMAIN history
       /\ \E n \in 0..MaxPieces : \E ps \in [1..n -> Pieces] :
             Calculate(1, Concat(ps, 1))
    \/ /\ resp = NoRequest
       /\ 1 \in DOMAIN history
       /\ \E e \in Corpus : Calculate(1, e)

SpecEval == Init /\ [][NextEval]_vars

----------------------------------------------------------------------------
(* Properties of the expression evaluator, checked under SpecEval.         *)

\* The allowlist as the specification words it.
ListedChars == Digits \cup {"+", "-", "*", "/", ".", "(", ")", "e"} \cup Letters

HasUnlistedChar(s) == \E i \in 1..Len(s) : s[i] \notin ListedChars

RejectedUnevaluated(out) ==
    out.st = "raise" /\ out.exc = "ValueError" /\ ~out.evaluated

\* C1 (as stated): for every input string that contains a character outside
\* the allowlist, safe_eval_expression fails before any evaluation is
\* attempted and calculate leaves the session history as it was.  A space is
\* outside the allowlist, yet "2 + 3" is evaluated and recorded.
C1_AnyUnlistedCharRejected ==
    [][(resp' # resp /\ resp'.op = "calculate"
          /\ HasUnlistedChar(resp'.expression))
       => (RejectedUnevaluated(resp'.out) /\ history' = history)]_vars

\* C1 (amended): for every input string that still contains a character
\* outside the allowlist once its space characters are removed,
\* safe_eval_expression fails with the error "Expression contains invalid
\* characters" before any evaluation is attempted, and calculate leaves the
\* session history exactly as it was.
C1_UnlistedCharRejected ==
    [][(resp' # resp /\ resp'.op = "calculate"
          /\ HasUnlistedChar(RemoveSpaces(resp'.expression)))
       => (/\ RejectedUnevaluated(resp'.out)
           /\ resp'.out.msg = <<"Expression contains invalid characters">>
           /\ history' = history)]_vars

\* A call with ';' was rejected unevaluated and the history is still empty.
C1_Witness ==
    /\ resp.op = "calculate"
    /\ \E i \in 1..Len(resp.expression) : resp.expression[i] = ";"
    /\ RejectedUnevaluated(resp.out)
    /\ history[1] = <<>>

ListedFunctions == {f_sin, f_cos, f_tan, f_log, f_sqrt, f_abs, f_pow}

\* s[i..j] is a maximal run of letters of s.
IsAlphaRun(s, i, j) ==
    /\ \A k \in i..j : isalpha(s[k])
    /\ (i = 1 \/ ~isalpha(s[i - 1]))
    /\ (j = Len(s) \/ ~isalpha(s[j + 1]))

\* The run s[i..i] is the exponent marker of a numeric literal.
IsExponentMarker(s, i) ==
    /\ s[i] = "e"
    /\ i > 1 /\ s[i - 1] \in Digits \cup {"."}
    /\ i < Len(s) /\ s[i + 1] \in Digits \cup {"+", "-"}

HasUnlistedRun(s) ==
    \E i \in 1..Len(s) : \E j \in i..Len(s) :
        /\ IsAlphaRun(s, i, j)
        /\ SubSeq(s, i, j) \notin ListedFunctions
        /\ ~(i = j /\ IsExponentMarker(s, i))

\* C2: safe_eval_expression rejects every expression in which some maximal
\* alphabetic run, other than the exponent marker of a numeric literal, is
\* not exactly one of sin, cos, tan, log, sqrt, abs, pow.  The code has no
\* such check: "math.pi" and "sinh(1)" are evaluated and return a number.
C2_UnlistedNameRejected ==
    (resp.op = "calculate" /\ HasUnlistedRun(RemoveSpaces(resp.expression)))
        => resp.out.st = "raise"

IsScalar(v) == v.k \in {"float", "opaque"}

\* C8: for every input string, calculate either returns a single numeric
\* scalar or fails with the one error kind, ValueError, carrying a cause
\* message; no other kind of exception leaves safe_eval_expression.
C8_OneErrorKind ==
    resp.op = "calculate" =>
        \/ /\ resp.out.st = "return"
           /\ IsScalar(resp.out.v.result)
        \/ /\ resp.out.st = "raise"
           /\ resp.out.exc = "ValueError"
           /\ resp.out.msg # <<>>

\* A division by zero inside eval() left the call as a ValueError.
C8_Witness ==
    /\ resp.op = "calculate"
    /\ resp.out.st = "raise"
    /\ resp.out.exc = "ValueError"
    /\ Len(resp.out.msg) >= 2
    /\ resp.out.msg[2] = "ZeroDivisionError"

----------------------------------------------------------------------------
(* SpecThreads: the requests of session 1 run on worker threads, which     *)
(* the interpreter switches between the steps below.  No statement of the  *)
(* two handlers takes a lock.                                              *)

\* calculate, lines 154-162, safe_eval_expression having ended in r.
CalcEvaluated(w, s, e, r) ==
    /\ r.st # "unmodelled"
    /\ IF r.st = "return"
       THEN /\ threads' = [threads EXCEPT ![w] =
                  [pc |-> "append", session |-> s,
                   entry |-> history_entry(e, r.v, Now)]]
            /\ UNCHANGED resp
       ELSE /\ resp' = CalcResponse(s, e, r)
            /\ UNCHANGED threads

\* calculate, lines 153-162: the evaluation, the timestamp and the entry.
CalcBegin(w, s, e) ==
    /\ threads[w] = Idle
    /\ s \in DOMAIN history
    /\ CalcEvaluated(w, s, e, Evaluated(e, order))
    /\ UNCHANGED <<history, clock, backs, order, returned>>

\* calculate, lines 163-169: list.append, one step of the interpreter, and
\* the return of the result.
CalcAppend(w) ==
    /\ threads[w].pc = "append"
    /\ LET s == threads[w].session
           entry == threads[w].entry
       IN /\ history' = AppendEntry(history, s, entry)
          /\ returned' = [returned EXCEPT ![s] = @ + 1]
          /\ resp' = CalcResponse(s, entry.expression,
                        Return(CalculationResult(entry.expression, entry.result,
                                                 entry.timestamp)))
    /\ threads' = [threads EXCEPT ![w] = Idle]
    /\ UNCHANGED <<clock, backs, order>>

\* get_calculation_history, lines 324-327: the reference to the list and
\* the test `if not history`.
ReadBegin(w, s) ==
    /\ threads[w] = Idle
    /\ s \in DOMAIN history
    /\ IF history[s] = <<>>
       THEN /\ resp' = HistoryResponse(s, HistoryText(TRUE, <<>>, 0))
            /\ UNCHANGED threads
       ELSE /\ threads' = [threads EXCEPT ![w] = [pc |-> "slice", session |-> s]]
            /\ UNCHANGED resp
    /\ UNCHANGED <<history, clock, backs, order, returned>>

\* lines 329-331: the slice history[-10:] and the lines made of it.
ReadSlice(w) ==
    /\ threads[w].pc = "slice"
    /\ threads' = [threads EXCEPT ![w] =
          [pc |-> "count", session |-> threads[w].session,
           lines |-> Lines(LastTen(history[threads[w].session]))]]
    /\ UNCHANGED <<history, clock, backs, order, resp, returned>>

\* line 333: the test `len(history) > 10`.
ReadCount(w) ==
    /\ threads[w].pc = "count"
    /\ LET s == threads[w].session
       IN IF Len(history[s]) > HistoryShown
          THEN /\ threads' = [threads EXCEPT ![w] = [@ EXCEPT !.pc = "more"]]
               /\ UNCHANGED resp
          ELSE /\ resp' = HistoryResponse(s, HistoryText(FALSE, threads[w].lines, 0))
               /\ threads' = [threads EXCEPT ![w] = Idle]
    /\ UNCHANGED <<history, clock, backs, order, returned>>

\* lines 334-336: `len(history) - 10`, read again, and the return of the text.
ReadMore(w) ==
    /\ threads[w].pc = "more"
    /\ LET s == threads[w].session
       IN resp' = HistoryResponse(s, HistoryText(FALSE, threads[w].lines,
                                                 More(history[s])))
    /\ threads' = [threads EXCEPT ![w] = Idle]
    /\ UNCHANGED <<history, clock, backs, order, returned>>

NextThreads ==
    \/ StartSession(1)
    \/ \E w \in Workers, e \in CalcInputs :
          /\ 1 \in DOMAIN history
          /\ Len(history[1]) + Cardinality({v \in Workers : threads[v].pc = "append"})
                < MaxRecords
          /\ CalcBegin(w, 1, e)
    \/ \E w \in Workers : CalcAppend(w)
    \/ \E w \in Workers : ReadBegin(w, 1)
    \/ \E w \in Workers : ReadSlice(w)
    \/ \E w \in Workers : ReadCount(w)
    \/ \E w \in Workers : ReadMore(w)
    \/ Tick

SpecThreads == Init /\ [][NextThreads]_vars

\* C7: with calculate requests and reads of one session interleaved, no
\* append is lost (the history is as long as the number of calculate calls
\* that returned) and every read renders a snapshot: its lines and its
\* "more" count are those of one and the same prefix of the history.  The
\* handlers take no lock, and a read takes the slice and the length in
\* separate steps.
C7_ConsistentSnapshot ==
    /\ \A s \in DOMAIN history : Len(history[s]) = returned[s]
    /\ resp.op = "history" =>
          \E k \in 0..Len(history[resp.session]) :
              resp.out = get_calculation_history(SubSeq(history[resp.session], 1, k))

----------------------------------------------------------------------------
(* The compound_interest tool.  Its arguments are drawn from the integers: *)
(* principal, rate and time are floats of integral value.                  *)

\* A double is finite below 2^DBL_MAX_EXP.
DBL_MAX_EXP == 1024

RECURSIVE FloorLog2(_)
\* The largest b with 2^b <= x, for x >= 1.
FloorLog2(x) == IF x < 2 THEN 0 ELSE 1 + FloorLog2(x \div 2)

IsPow2(x) == x >= 1 /\ x = 2^FloorLog2(x)

\* Floats of the formula: the finite float (n/d) * 2^x, +inf, and the
\* rounded difference of two floats that the window cannot hold.
Float(n, d, x) == [k |-> "float", n |-> n, d |-> d, x |-> x]
Inf == [k |-> "inf"]
RoundedDiff(a, b) == [k |-> "diff", a |-> a, b |-> b]

ToolReturn(v) == [st |-> "return", v |-> v]
ToolRaise(exc, msg) == [st |-> "raise", exc |-> exc, msg |-> msg]
ToolUnmodelled == [st |-> "unmodelled"]

\* (bn/bd) ** e for a float base >= 1 and a float e >= 1 of integral value;
\* the C library's pow reports a result out of range and Python raises.
float_pow(bn, bd, e) ==
    IF bd = 1 /\ IsPow2(bn)
    THEN IF FloorLog2(bn) * e >= DBL_MAX_EXP
         THEN ToolRaise("OverflowError", "Numerical result out of range")
         ELSE ToolReturn(Float(1, 1, FloorLog2(bn) * e))
    ELSE IF e > 15 THEN ToolUnmodelled
    ELSE LET n == IntPow(bn, e)
             d == IntPow(bd, e)
         IN IF n > MaxNum \/ d > MaxNum THEN ToolUnmodelled
            ELSE ToolReturn(Float(n, d, 0))

\* p * f for a float p >= 1 of integral value: a product out of range is inf.
float_mul(p, f) ==
    IF f.x = 0
    THEN LET g == GCD(p * f.n, f.d)
         IN Float((p * f.n) \div g, f.d \div g, 0)
    ELSE IF f.x + FloorLog2(p) >= DBL_MAX_EXP THEN Inf
    ELSE Float(p, 1, f.x)

\* f - p
float_sub(f, p) ==
    IF f.k = "inf" THEN Inf
    ELSE IF f.x = 0 THEN Float(f.n - p * f.d, f.d, 0)
    ELSE RoundedDiff(f, p)

CompoundInterestResult(principal, rate, time, compounds_per_year, final_amount, total_interest) ==
    [principal |-> principal, rate |-> rate, time |-> time,
     compounds_per_year |-> compounds_per_year,
     final_amount |-> final_amount, total_interest |-> total_interest]

compound_interest(principal, rate, time, compounds_per_year) ==
    IF principal <= 0
    THEN ToolRaise("ValueError", "Principal must be greater than 0")
    ELSE IF rate < 0
    THEN ToolRaise("ValueError", "Interest rate cannot be negative")
    ELSE IF time <= 0
    THEN ToolRaise("ValueError", "Time must be greater than 0")
    ELSE IF compounds_per_year <= 0
    THEN ToolRaise("ValueError", "Compounds per year must be greater than 0")
    ELSE LET g == GCD(compounds_per_year + rate, compounds_per_year)
             power == float_pow((compounds_per_year + rate) \div g,
                                compounds_per_year \div g,
                                compounds_per_year * time)
         IN IF power.st # "return" THEN power
            ELSE LET final_amount == float_mul(principal, power.v)
                     total_interest == float_sub(final_amount, principal)
                 IN ToolReturn(CompoundInterestResult(
                        principal, rate, time, compounds_per_year,
                        final_amount, total_interest))

ToolResponse(op, args, out) == [op |-> op, args |-> args, out |-> out]

\* The compound_interest tool, called with these arguments.
CompoundInterest(principal, rate, time, compounds_per_year) ==
    /\ LET out == compound_interest(principal, rate, time, compounds_per_year)
       IN /\ out.st # "unmodelled"
          /\ resp' = ToolResponse("compound_interest",
                        <<principal, rate, time, compounds_per_year>>, out)
    /\ UNCHANGED <<history, clock, backs, order, threads, returned>>

----------------------------------------------------------------------------
(* The convert_units tool.  Unit codes are strings of characters; values   *)
(* and factors are exact fractions n/d, so that 25.4 is 127/5.  The        *)
(* rounding of the float operations is left out: none of them can raise.   *)

UpperLetters ==
    <<"A", "B", "C", "D", "E", "F", "G", "H", "I", "J", "K", "L", "M",
      "N", "O", "P", "Q", "R", "S", "T", "U", "V", "W", "X", "Y", "Z">>

LowerLetters ==
    <<"a", "b", "c", "d", "e", "f", "g", "h", "i", "j", "k", "l", "m",
      "n", "o", "p", "q", "r", "s", "t", "u", "v", "w", "x", "y", "z">>

\* str.lower() of one character
lower_char(c) ==
    IF \E i \in DOMAIN UpperLetters : UpperLetters[i] = c
    THEN LowerLetters[CHOOSE i \in DOMAIN UpperLetters : UpperLetters[i] = c]
    ELSE c

\* The unit code compared as it was written.
keep_case(s) == s

\* str.lower()
lower(s) == [i \in 1..Len(s) |-> lower_char(s[i])]

\* The fraction n/d in lowest terms, d > 0.
Frac(n, d) ==
    LET g == GCD(Abs(n), Abs(d))
        sign == IF d < 0 THEN -1 ELSE 1
    IN [n |-> sign * (n \div g), d |-> sign * (d \div g)]

FracAdd(a, b) == Frac(a.n * b.d + b.n * a.d, a.d * b.d)
FracSub(a, b) == Frac(a.n * b.d - b.n * a.d, a.d * b.d)
FracMul(a, b) == Frac(a.n * b.n, a.d * b.d)
\* a / b for b # 0
FracDiv(a, b) == Frac(a.n * b.d, a.d * b.n)

\* 273.15
KelvinOffset == Frac(27315, 100)

convert_temperature(value, from_unit, to_unit) ==
    LET celsius ==
            IF lower(from_unit) = <<"f">>
            THEN FracDiv(FracMul(FracSub(value, Frac(32, 1)), Frac(5, 1)), Frac(9, 1))
            ELSE IF lower(from_unit) = <<"k">>
            THEN FracSub(value, KelvinOffset)
            ELSE value
    IN IF lower(to_unit) = <<"f">>
       THEN FracAdd(FracDiv(FracMul(celsius, Frac(9, 1)), Frac(5, 1)), Frac(32, 1))
       ELSE IF lower(to_unit) = <<"k">>
       THEN FracAdd(celsius, KelvinOffset)
       ELSE celsius

\* Conversion tables (to base units)
conversions ==
    [length |->
        (<<"m", "m">> :> Frac(1, 1)) @@ (<<"c", "m">> :> Frac(10, 1)) @@
        (<<"m">> :> Frac(1000, 1)) @@ (<<"k", "m">> :> Frac(1000000, 1)) @@
        (<<"i", "n">> :> Frac(254, 10)) @@ (<<"f", "t">> :> Frac(3048, 10)) @@
        (<<"y", "d">> :> Frac(9144, 10)) @@ (<<"m", "i">> :> Frac(1609344, 1)),
     weight |->
        (<<"g">> :> Frac(1, 1)) @@ (<<"k", "g">> :> Frac(1000, 1)) @@
        (<<"o", "z">> :> Frac(2835, 100)) @@ (<<"l", "b">> :> Frac(45359, 100))]

\* dict.get(key): the value, or None
None == [k |-> "None"]
DictGet(dict, key) == IF key \in DOMAIN dict THEN dict[key] ELSE None

UnitConversionResult(original_value, original_unit, converted_value, target_unit, conversion_type) ==
    [original_value |-> original_value, original_unit |-> original_unit,
     converted_value |-> converted_value, target_unit |-> target_unit,
     conversion_type |-> conversion_type]

convert_units(value, from_unit, to_unit, unit_type) ==
    IF unit_type = "temperature"
    THEN ToolReturn(UnitConversionResult(
             value, from_unit, convert_temperature(value, from_unit, to_unit),
             to_unit, unit_type))
    ELSE LET conversion_table == DictGet(conversions, unit_type)
         IN IF conversion_table = None
            THEN ToolRaise("ValueError", <<"Unknown unit type", unit_type>>)
            ELSE LET from_factor == DictGet(conversion_table, lower(from_unit))
                     to_factor == DictGet(conversion_table, lower(to_unit))
                 IN IF from_factor = None
                    THEN ToolRaise("ValueError",
                                   <<"Unknown unit", unit_type, from_unit>>)
                    ELSE IF to_factor = None
                    THEN ToolRaise("ValueError",
                                   <<"Unknown unit", unit_type, to_unit>>)
                    ELSE IF to_factor.n = 0
                    THEN ToolRaise("ZeroDivisionError", <<"float division by zero">>)
                    ELSE ToolReturn(UnitConversionResult(
                             value, from_unit,
                             FracDiv(FracMul(value, from_factor), to_factor),
                             to_unit, unit_type))

\* Unit codes and unit types a client may send.
UnitCodes ==
    {<<>>, <<"x">>, <<"m", "m">>, <<"c", "m">>, <<"C", "M">>, <<"m">>, <<"M">>,
     <<"k", "m">>, <<"K", "M">>, <<"K", "m">>, <<"i", "n">>, <<"f", "t">>,
     <<"y", "d">>, <<"m", "i">>, <<"g">>, <<"G">>, <<"k", "g">>, <<"K", "G">>,
     <<"o", "z">>, <<"l", "b">>, <<"c">>, <<"C">>, <<"f">>, <<"F">>, <<"k">>,
     <<"K">>, <<"r">>}

UnitTypes ==
    {"length", "weight", "temperature", "Length", "TEMPERATURE", "volume",
     "invalid_type", ""}

\* The convert_units tool, called with these arguments.
ConvertUnits(value, from_unit, to_unit, unit_type) ==
    /\ resp' = ToolResponse("convert_units",
                  <<value, from_unit, to_unit, unit_type>>,
                  convert_units(Frac(value, 1), from_unit, to_unit, unit_type))
    /\ UNCHANGED <<history, clock, backs, order, threads, returned>>

----------------------------------------------------------------------------
(* The statistics tool.  The numbers are floats of integral value, and a   *)
(* result is an exact fraction or the square root of one.                  *)

RECURSIVE SeqSum(_)
SeqSum(s) == IF s = <<>> THEN 0 ELSE Head(s) + SeqSum(Tail(s))

Squares(s) == [i \in DOMAIN s |-> s[i] * s[i]]

RECURSIVE InsertSorted(_, _)
InsertSorted(x, s) ==
    IF s = <<>> THEN <<x>>
    ELSE IF x <= Head(s) THEN <<x>> \o s
    ELSE <<Head(s)>> \o InsertSorted(x, Tail(s))

RECURSIVE sorted(_)
sorted(s) == IF s = <<>> THEN <<>> ELSE InsertSorted(Head(s), sorted(Tail(s)))

Occurrences(s, x) == Cardinality({i \in DOMAIN s : s[i] = x})

\* The square root of a fraction, a float the model does not round.
Root(v) == IF v.n = 0 THEN v ELSE [k |-> "sqrt", of |-> v]

\* statistics.mean, for a non-empty list
stats_mean(data) == Frac(SeqSum(data), Len(data))

\* statistics.median, for a non-empty list
stats_median(data) ==
    LET s == sorted(data)
        n == Len(data)
    IN IF n % 2 = 1 THEN Frac(s[n \div 2 + 1], 1)
       ELSE Frac(s[n \div 2] + s[n \div 2 + 1], 2)

\* statistics.mode, for a non-empty list: of the most common values, the
\* one met first.
stats_mode(data) ==
    LET most == {i \in DOMAIN data :
                    \A j \in DOMAIN data :
                        Occurrences(data, data[j]) <= Occurrences(data, data[i])}
        first == CHOOSE i \in most : \A j \in most : i <= j
    IN Frac(data[first], 1)

\* statistics.variance, the sample variance of two values or more
stats_variance(data) ==
    LET n == Len(data)
    IN Frac(n * SeqSum(Squares(data)) - SeqSum(data) * SeqSum(data), n * (n - 1))

\* statistics.stdev
stats_stdev(data) == Root(stats_variance(data))

\* The operations dictionary, each entry applied to x.
operations(x) ==
    [mean |-> stats_mean(x),
     median |-> stats_median(x),
     mode |-> stats_mode(x),
     std_dev |-> IF Len(x) > 1 THEN stats_stdev(x) ELSE Frac(0, 1),
     variance |-> IF Len(x) > 1 THEN stats_variance(x) ELSE Frac(0, 1)]

StatisticsResult(operation, input_data, result, count) ==
    [operation |-> operation, input_data |-> input_data,
     result |-> result, count |-> count]

UnknownOperation(operation) ==
    ToolRaise("ValueError", <<"Unknown operation", operation>>)

EmptyList == ToolRaise("ValueError", <<"Cannot calculate statistics on empty list">>)

\* The tool with the operation name looked up before the list.
statistics_name_first(numbers, operation) ==
    IF operation \notin {"mean", "median", "mode", "std_dev", "variance"}
    THEN UnknownOperation(operation)
    ELSE IF numbers = <<>> THEN EmptyList
    ELSE ToolReturn(StatisticsResult(
             operation, numbers, operations(numbers)[operation], Len(numbers)))

statistics(numbers, operation) ==
    IF numbers = <<>> THEN EmptyList
    ELSE IF operation \notin DOMAIN operations(numbers)
    THEN UnknownOperation(operation)
    ELSE ToolReturn(StatisticsResult(
             operation, numbers, operations(numbers)[operation], Len(numbers)))

\* Lists of numbers and operation names a client may send.
NumberLists == UNION {[1..n -> -1..MaxValue] : n \in 0..MaxNumbers}

OperationNames ==
    {"mean", "median", "mode", "std_dev", "variance", "invalid_op", "Mean", ""}

\* The statistics tool, called with these arguments.
Statistics(numbers, operation) ==
    /\ resp' = ToolResponse("statistics", <<numbers, operation>>,
                            statistics(numbers, operation))
    /\ UNCHANGED <<history, clock, backs, order, threads, returned>>

----------------------------------------------------------------------------
(* SpecTools: one call of a tool that keeps no state.                      *)

NextTools ==
    /\ resp = NoRequest
    /\ \/ \E principal \in -1..MaxAmount, rate \in -1..MaxRate,
             time \in -1..MaxYears, compounds_per_year \in -1..MaxCompounds :
              CompoundInterest(principal, rate, time, compounds_per_year)
       \/ \E value \in -1..MaxValue, from_unit \in UnitCodes,
             to_unit \in UnitCodes, unit_type \in UnitTypes :
              ConvertUnits(value, from_unit, to_unit, unit_type)
       \/ \E numbers \in NumberLists, operation \in OperationNames :
              Statistics(numbers, operation)

SpecTools == Init /\ [][NextTools]_vars

\* C10: compound_interest fails exactly when principal <= 0, rate < 0,
\* time <= 0 or compounds_per_year <= 0, each with its own message, the
\* first violated condition deciding; for all other inputs it returns a
\* record that echoes the four inputs with total_interest = final_amount -
\* principal.  The power (1 + rate/n) ** (n * time) of valid inputs can be
\* out of the range of a float, and the call then ends in OverflowError.
C10_FailsExactlyOnInvalidInput ==
    resp.op = "compound_interest" =>
        LET principal == resp.args[1]
            rate == resp.args[2]
            time == resp.args[3]
            compounds_per_year == resp.args[4]
            out == resp.out
        IN IF principal <= 0
           THEN out = ToolRaise("ValueError", "Principal must be greater than 0")
           ELSE IF rate < 0
           THEN out = ToolRaise("ValueError", "Interest rate cannot be negative")
           ELSE IF time <= 0
           THEN out = ToolRaise("ValueError", "Time must be greater than 0")
           ELSE IF compounds_per_year <= 0
           THEN out = ToolRaise("ValueError",
                                "Compounds per year must be greater than 0")
           ELSE /\ out.st = "return"
                /\ out.v.principal = principal /\ out.v.rate = rate
                /\ out.v.time = time
                /\ out.v.compounds_per_year = compounds_per_year
                /\ out.v.total_interest = float_sub(out.v.final_amount, principal)

\* Two unit codes that differ at most in the case of their letters.
SameIgnoringCase(a, b) ==
    /\ Len(a) = Len(b)
    /\ \A i \in 1..Len(a) :
          \/ a[i] = b[i]
          \/ \E j \in DOMAIN UpperLetters :
                {a[i], b[i]} = {UpperLetters[j], LowerLetters[j]}

\* The temperature scale a unit code stands for.
TemperatureScale(unit) ==
    IF SameIgnoringCase(unit, <<"f">>) THEN <<"f">>
    ELSE IF SameIgnoringCase(unit, <<"k">>) THEN <<"k">>
    ELSE <<"c">>

\* C11: convert_units fails exactly in these cases: unit_type is not one of
\* length, weight, temperature ("Unknown unit type"), or unit_type is length
\* or weight and from_unit or to_unit, compared without regard to case, is
\* absent from that type's table ("Unknown unit"); for unit_type temperature
\* it never fails, and any unit code other than f or k, in either case, is
\* treated as Celsius.
C11_FailsExactlyOnUnknownUnits ==
    resp.op = "convert_units" =>
        LET value == Frac(resp.args[1], 1)
            from_unit == resp.args[2]
            to_unit == resp.args[3]
            unit_type == resp.args[4]
            out == resp.out
            Listed(unit) ==
                \E key \in DOMAIN conversions[unit_type] :
                    SameIgnoringCase(key, unit)
        IN IF unit_type = "temperature"
           THEN /\ out.st = "return"
                /\ out.v.converted_value =
                      convert_temperature(value, TemperatureScale(from_unit),
                                          TemperatureScale(to_unit))
           ELSE IF unit_type \notin {"length", "weight"}
           THEN /\ out.st = "raise" /\ out.exc = "ValueError"
                /\ out.msg[1] = "Unknown unit type"
           ELSE IF ~Listed(from_unit) \/ ~Listed(to_unit)
           THEN /\ out.st = "raise" /\ out.exc = "ValueError"
                /\ out.msg[1] = "Unknown unit"
           ELSE out.st = "return"

\* A length converted between unit codes written in capitals.
C11_Witness ==
    /\ resp.op = "convert_units"
    /\ resp.args[2] = <<"M">> /\ resp.args[3] = <<"K", "M">>
    /\ resp.args[4] = "length"
    /\ resp.out.st = "return"
    /\ resp.out.v.converted_value = Frac(resp.args[1], 1000)


\* C12: statistics fails with the empty-list validation error for an empty
\* list of numbers whatever the operation name is, fails with "Unknown
\* operation" for a non-empty list and an operation outside mean, median,
\* mode, std_dev, variance, and returns 0 for std_dev and variance of a list
\* of one element; every result reports count equal to the length of the
\* input and input_data equal to the input.
C12_StatisticsValidation ==
    resp.op = "statistics" =>
        LET numbers == resp.args[1]
            operation == resp.args[2]
            out == resp.out
        IN /\ numbers = <<>> =>
                 /\ out.st = "raise" /\ out.exc = "ValueError"
                 /\ out.msg[1] = "Cannot calculate statistics on empty list"
           /\ (/\ numbers # <<>>
               /\ operation \notin {"mean", "median", "mode", "std_dev", "variance"}) =>
                 /\ out.st = "raise" /\ out.exc = "ValueError"
                 /\ out.msg[1] = "Unknown operation"
           /\ (Len(numbers) = 1 /\ operation \in {"std_dev", "variance"}) =>
                 /\ out.st = "return"
                 /\ out.v.result = Frac(0, 1)
           /\ out.st = "return" =>
                 /\ out.v.count = Len(numbers)
                 /\ out.v.input_data = numbers

\* The standard deviation of a list of one number.
C12_Witness ==
    /\ resp.op = "statistics"
    /\ Len(resp.args[1]) = 1 /\ resp.args[2] = "std_dev"
    /\ resp.out.st = "return"
    /\ resp.out.v.result = Frac(0, 1) /\ resp.out.v.count = 1


====
